---- MODULE Spec2Model ----
(***************************************************************************)
(* DriveShare Capital API (src/main.py, src/schemas.py): the wallet ledger *)
(* and the distribution engine, as a state machine over the document store.*)
(*                                                                         *)
(* Every request handler is a process that performs its database calls one *)
(* at a time; one action of this module is one database call of a handler  *)
(* (a single-document MongoDB operation is atomic), together with the      *)
(* local computation that follows it up to the next database call.         *)
(*                                                                         *)
(* Money is counted in integer cents.  The code keeps Python floats; an    *)
(* amount of c cents stands for the double nearest to c / 100.  Where the  *)
(* code rounds a float product to cents (run_distribution) and the exact   *)
(* product is a half cent, the binary doubles are computed bit for bit to  *)
(* decide which way round() goes.                                          *)
(* Timestamps (created_at, updated_at) are not modelled.                   *)
(***************************************************************************)
EXTENDS Integers, Sequences, FiniteSets, TLC

(* ---------------------------- bounds ----------------------------------- *)

\* a request that appends to a collection is accepted only while the
\* collection is shorter than its bound
MaxUsers == 1
MaxOfferings == 1
MaxInvestments == 2
MaxTransactions == 2
MaxDistributions == 2
MaxKycs == 1
MaxOrders == 1
\* handlers that may die in one behaviour
MaxCrashes == 1

\* request handlers that may run at the same time
Procs == {"p1", "p2"}
\* the handler that runs alone in the sequential specifications
SeqProc == "p1"
\* the handler that serves the exits racing with a run
ExitProc == "p2"

\* request inputs
UserIds == {"u1", "u2"}
Emails == {"a@x"}
Amounts == {-150, 200}
TotalAmounts == {0, 4}
Months == {1}
ShareCounts == {0, 1, 5}
InstalmentRefs == {1}
CarsCounts == {1, 2}
SharesTotals == {10, 20}
\* amounts of either sign and zero, for the wallet routes run alone
SignedAmounts == Amounts \cup {0}
\* share counts that can exceed the shares_total of an offering
PoolShareCounts == {1, 5, 12}
\* amounts to distribute, one of which (0.01) makes 5 shares of 10 a half cent
PoolTotalAmounts == {0, 1, 4}
\* share counts of the investments behind concurrent requests
SceneShareCounts == {5}
\* the status a request body may give an investment; left out, it is active
\* the user the credits go to where notices are sent beside them
Investors == {"u1"}
InvestorTotalAmounts == {4}
InvestorTopups == {200}
InvestorInstalments == {-150}

DefaultStatus == "active"
InvestmentStatuses == {"active", "exited", "defaulted"}
\* the defaults of the other request models
DefaultOfferingStatus == "open"
DefaultRole == "investor"
KycStatuses == {"pending"}
KycDecisions == {"approved"}
OrderSides == {"buy"}
OrderStatuses == {"open"}
OrderShareCounts == {1}
OrderPrices == {100}

(* ------------------------- values and helpers -------------------------- *)

\* Python None as a reference_id; object ids start at 1
None == 0

\* meta or {} when no meta is passed
EmptyMeta == [k \in {} |-> 0]

abs(x) == IF x < 0 THEN -x ELSE x

RECURSIVE Gcd(_, _)
Gcd(a, b) == IF b = 0 THEN a ELSE Gcd(b, a % b)

\* the quotient n / d (d > 0) of a float division, kept exact as a reduced
\* fraction
Frac(n, d) ==
    LET g == Gcd(abs(n), d)
    IN  IF g = 0 THEN [num |-> 0, den |-> 1] ELSE [num |-> n \div g, den |-> d \div g]

(* Natural numbers beyond the machine integers, as sequences of limbs in   *)
(* base LimbBase, least significant first and without leading zero limbs;  *)
(* they carry the 53-bit significands of the doubles.                      *)
LimbBase == 32768
LimbBits == 15

RECURSIVE BigNat(_)
BigNat(n) == IF n = 0 THEN <<>> ELSE <<n % LimbBase>> \o BigNat(n \div LimbBase)

RECURSIVE Trim(_)
Trim(a) ==
    IF a = <<>> THEN a
    ELSE IF a[Len(a)] = 0 THEN Trim(SubSeq(a, 1, Len(a) - 1)) ELSE a

\* a * k + c, for 0 <= k <= LimbBase
RECURSIVE MulAdd(_, _, _)
MulAdd(a, k, c) ==
    IF a = <<>> THEN BigNat(c)
    ELSE LET t == a[1] * k + c
         IN  <<t % LimbBase>> \o MulAdd(Tail(a), k, t \div LimbBase)

MulSmall(a, k) == Trim(MulAdd(a, k, 0))
AddSmall(a, c) == MulAdd(a, 1, c)

\* quotient and remainder of a by k, for 1 <= k <= LimbBase
RECURSIVE DivRem(_, _)
DivRem(a, k) ==
    IF a = <<>> THEN [q |-> <<>>, r |-> 0]
    ELSE LET hi == DivRem(Tail(a), k)
             t == hi.r * LimbBase + a[1]
         IN  [q |-> <<t \div k>> \o hi.q, r |-> t % k]

DivSmall(a, k) == [q |-> Trim(DivRem(a, k).q), r |-> DivRem(a, k).r]

RECURSIVE BitLenSmall(_)
BitLenSmall(n) == IF n = 0 THEN 0 ELSE 1 + BitLenSmall(n \div 2)

BitLen(a) == IF a = <<>> THEN 0 ELSE LimbBits * (Len(a) - 1) + BitLenSmall(a[Len(a)])

\* a * 2^j
ShiftLeft(a, j) ==
    IF a = <<>> THEN a
    ELSE [i \in 1..(j \div LimbBits) |-> 0] \o MulSmall(a, 2 ^ (j % LimbBits))

\* -1, 0 or 1 as a is less than, equal to or greater than b
RECURSIVE Compare(_, _)
Compare(a, b) ==
    IF Len(a) # Len(b) THEN (IF Len(a) < Len(b) THEN -1 ELSE 1)
    ELSE IF a = <<>> THEN 0
    ELSE IF a[Len(a)] # b[Len(b)] THEN (IF a[Len(a)] < b[Len(b)] THEN -1 ELSE 1)
    ELSE Compare(SubSeq(a, 1, Len(a) - 1), SubSeq(b, 1, Len(b) - 1))

\* the significand low.q of a quotient cut at its 53rd bit, rounded half to
\* even: low.r is what the cut took off, half the weight of its first bit,
\* rest whether the division left a remainder below it
FloatRounded(low, half, rest, e) ==
    [m |-> IF \/ low.r > half
              \/ low.r = half /\ (rest \/ low.q[1] % 2 = 1)
           THEN AddSmall(low.q, 1)
           ELSE low.q,
     e |-> e]

\* the quotient qr.q cut j bits above its last
FloatCut(qr, j, e) == FloatRounded(DivSmall(qr.q, 2 ^ j), 2 ^ (j - 1), qr.r > 0, e + j)

\* the quotient qr.q * 2^e, of 54 bits or more, as a double
FloatQuotient(qr, e) == FloatCut(qr, BitLen(qr.q) - 53, e)

\* n * 2^e0 / d with n scaled by 2^k before the division
FloatScaled(n, d, k, e0) == FloatQuotient(DivSmall(ShiftLeft(n, k), d), e0 - k)

AtLeastZero(x) == IF x > 0 THEN x ELSE 0

\* the double nearest to n * 2^e0 / d (IEEE 754 binary64, round half to
\* even), as [m, e] with value m * 2^e and m below 2^53 + 1; n is a big
\* natural of at most 68 bits, 1 <= d < LimbBase
FloatOf(n, d, e0) ==
    IF n = <<>> THEN [m |-> <<>>, e |-> 0]
    ELSE FloatScaled(n, d, AtLeastZero(54 + BitLenSmall(d) - BitLen(n)), e0)

\* the sign of x - t / 200 for a double x and a natural t
CompareToHalfCents(x, t) ==
    IF x.e < 0 THEN Compare(MulSmall(x.m, 200), ShiftLeft(BigNat(t), 0 - x.e))
    ELSE Compare(ShiftLeft(MulSmall(x.m, 200), x.e), BigNat(t))

\* string ids the store hands out for user documents
NewUserIds == <<"n1", "n2", "n3", "n4">>

\* the _id of the n-th document inserted into a collection
ObjectId(coll, n) == IF coll = "user" THEN NewUserIds[n] ELSE n

\* database.create_document: insert one document, the store assigns _id
create_document(d, coll, doc) ==
    [d EXCEPT ![coll] = Append(@, [_id |-> ObjectId(coll, Len(@) + 1)] @@ doc)]

\* the _id create_document returns
inserted_id(d, coll) == ObjectId(coll, Len(d[coll]) + 1)

\* a document matches a query {field: value, ...} when it has every field of
\* the query with the value the query gives
Matches(doc, query) ==
    \A f \in DOMAIN query : f \in DOMAIN doc /\ doc[f] = query[f]

\* collection.find_one(query): index of the first matching document, 0 if none
find_one(docs, query) ==
    LET hits == {i \in 1..Len(docs) : Matches(docs[i], query)}
    IN  IF hits = {} THEN 0 ELSE CHOOSE i \in hits : \A j \in hits : i <= j

\* collection.find(query): the matching documents, in store order
find(docs, query) ==
    LET Hit(doc) == Matches(doc, query)
    IN  SelectSeq(docs, Hit)

(* ------------------------------ schemas -------------------------------- *)

Wallet(user_id, balance) == [user_id |-> user_id, balance |-> balance, currency |-> "USD"]

Transaction(user_id, type, amount, reference_id, meta) ==
    [user_id |-> user_id, type |-> type, amount |-> amount,
     reference_id |-> reference_id, meta |-> meta]

Notification(user_id, title, message) ==
    [user_id |-> user_id, title |-> title, message |-> message, read |-> FALSE]

Instalment(user_id, investment_id, amount) ==
    [user_id |-> user_id, investment_id |-> investment_id, amount |-> amount, paid |-> TRUE]

Distribution(offering_id, month, total_amount, per_share) ==
    [offering_id |-> offering_id, month |-> month,
     total_amount |-> total_amount, per_share |-> per_share]

Investment(user_id, offering_id, shares, status) ==
    [user_id |-> user_id, offering_id |-> offering_id, shares |-> shares, status |-> status]

Offering(cars_count, shares_total, status) ==
    [cars_count |-> cars_count, shares_total |-> shares_total, status |-> status]

User(email, role) == [email |-> email, role |-> role]

\* the document fields of a KYC (type, number, country) are stored as given
\* and read by no handler; they are left out
KYC(user_id, status) == [user_id |-> user_id, status |-> status]

SecondaryOrder(user_id, offering_id, side, shares, price_per_share, status) ==
    [user_id |-> user_id, offering_id |-> offering_id, side |-> side, shares |-> shares,
     price_per_share |-> price_per_share, status |-> status]

\* str.title() on the side of an order
side_title(side) == IF side = "buy" THEN "Buy" ELSE IF side = "sell" THEN "Sell" ELSE side

\* field constraints of the request models
InvestmentValid(shares, status) ==
    shares >= 1 /\ status \in {"active", "exited", "defaulted"}
OfferingValid(cars_count, shares_total, status) ==
    cars_count >= 1 /\ shares_total >= 10 /\ status \in {"open", "closed", "fully_subscribed"}
UserValid(role) == role \in {"investor", "admin"}
KYCValid(status) == status \in {"pending", "approved", "rejected"}
KycDecisionValid(status) == status \in {"approved", "rejected"}
SecondaryOrderValid(side, status) ==
    side \in {"buy", "sell"} /\ status \in {"open", "matched", "cancelled"}

(* ------------------------------- state --------------------------------- *)

VARIABLES
    db,     \* the document store: collection name -> documents in insertion order
    op,     \* op[p]: the handler process p is running, "idle" if none
    pc,     \* pc[p]: the source line of the next database call of p
    req,    \* req[p]: the request body
    loc,    \* loc[p]: the handler's local variables
    res,    \* res[p]: the response, once pc[p] = "done"
    pre,    \* pre[p]: the store as it was when the request arrived
    crashes \* the number of handlers that have died so far

vars == <<db, op, pc, req, loc, res, pre, crashes>>

\* the offerings the store holds when the service starts: one written outside
\* this API, without shares, and one created through POST /offerings
LegacyOffering == [_id |-> 1, cars_count |-> 1, shares_total |-> 0, status |-> "open"]
OpenOffering == [_id |-> 2, cars_count |-> 1, shares_total |-> 10, status |-> "open"]

EmptyDb ==
    [user |-> <<>>, kyc |-> <<>>, wallet |-> <<>>, transaction |-> <<>>, notification |-> <<>>,
     offering |-> <<LegacyOffering, OpenOffering>>, investment |-> <<>>, instalment |-> <<>>,
     distribution |-> <<>>, secondaryorder |-> <<>>]

NoReq == [none |-> TRUE]
NoRes == [code |-> 0]
NoCredit == [user_id |-> "", amount |-> 0, tx_type |-> "", reference_id |-> None, meta |-> EmptyMeta]
NoNote == [user_id |-> "", title |-> "", message |-> 0]
NoLoc ==
    [cw |-> NoCredit, note |-> NoNote, invs |-> <<>>, i |-> 0,
     shares_total |-> 0, per_share |-> Frac(0, 1), inv |-> NoReq, new_id |-> None,
     kyc |-> 0]

Init ==
    /\ db = EmptyDb
    /\ op = [p \in Procs |-> "idle"]
    /\ pc = [p \in Procs |-> "idle"]
    /\ req = [p \in Procs |-> NoReq]
    /\ loc = [p \in Procs |-> NoLoc]
    /\ res = [p \in Procs |-> NoRes]
    /\ pre = [p \in Procs |-> <<>>]
    /\ crashes = 0

(* ------------------------ reading the store ---------------------------- *)

\* the balance a read of the user's wallet finds in store d: that of the
\* first wallet document of the user, 0 if there is none
Balance(d, u) ==
    LET k == find_one(d.wallet, [user_id |-> u])
    IN  IF k = 0 THEN 0 ELSE d.wallet[k].balance

\* the transactions logged for user u in store d
TxOf(d, u) ==
    LET Mine(t) == t.user_id = u
    IN  SelectSeq(d.transaction, Mine)

RECURSIVE SumAmounts(_)
SumAmounts(txs) == IF txs = <<>> THEN 0 ELSE txs[1].amount + SumAmounts(Tail(txs))

(* ------------------------- control helpers ----------------------------- *)

\* process p continues at label l; r is its response once l = "done"
Jump(p, l, r) ==
    /\ pc' = [pc EXCEPT ![p] = l]
    /\ res' = [res EXCEPT ![p] = r]
    /\ UNCHANGED crashes

\* a request arrives at an idle process
Accept(p, name, body) ==
    /\ op[p] = "idle"
    /\ op' = [op EXCEPT ![p] = name]
    /\ req' = [req EXCEPT ![p] = body]
    /\ pre' = [pre EXCEPT ![p] = db]

\* the response of a handler whose last statement was notify(...)
Response(p) ==
    CASE op[p] = "exit_investment" -> [code |-> 200, status |-> "ok", payout |-> loc[p].cw.amount]
      [] op[p] \in {"create_investment", "submit_kyc", "place_order"} ->
            [code |-> 200, id |-> loc[p].new_id]
      [] OTHER -> [code |-> 200, status |-> "ok"]

\* ids a client may send
KnownUserIds == UserIds \cup {db.user[k]._id : k \in 1..Len(db.user)}
InvestmentIds == 1..MaxInvestments
KycIds == 1..MaxKycs
OfferingIds == 1..(Len(EmptyDb.offering) + MaxOfferings)
StoredOfferingIds == 1..Len(EmptyDb.offering)

\* requests in flight that will call credit_wallet once
InFlightCredits ==
    Cardinality({p \in Procs : op[p] \in {"wallet_topup", "pay_instalment", "exit_investment"}})

\* a request that appends one transaction is accepted while the log, with the
\* transactions of the requests in flight, stays within MaxTransactions
CreditAllowed == Len(db.transaction) + InFlightCredits < MaxTransactions

\* a run_distribution request is accepted while the Distribution records,
\* with those of the runs in flight, stay within MaxDistributions
RunAllowed ==
    Len(db.distribution) + Cardinality({p \in Procs : op[p] = "run_distribution"})
        < MaxDistributions

(* ------------------------------ ledger --------------------------------- *)

\* C1 mutant: the update uses $set where the code uses $inc
inc_balance_set(wallets, uid, amount) ==
    LET k == find_one(wallets, [user_id |-> uid])
    IN  IF k = 0 THEN wallets
        ELSE [wallets EXCEPT ![k] = [@ EXCEPT !.balance = amount]]

\* update_one({"user_id": uid}, {"$inc": {"balance": amount}}): the first
\* matching wallet document, nothing if there is none
inc_balance(wallets, uid, amount) ==
    LET k == find_one(wallets, [user_id |-> uid])
    IN  IF k = 0 THEN wallets
        ELSE [wallets EXCEPT ![k] = [@ EXCEPT !.balance = @ + amount]]

\* where a handler goes on after ensure_wallet returns
ensure_wallet_return(p) ==
    IF op[p] = "create_user"
    THEN Jump(p, "done", [code |-> 200, id |-> loc[p].new_id])
    ELSE Jump(p, "credit_wallet_41", NoRes)

\* C15 mutant: the wallet is created without looking for an existing one
ensure_wallet_32_blind(p) ==
    /\ pc[p] = "ensure_wallet_32"
    /\ Jump(p, "ensure_wallet_34", NoRes)
    /\ UNCHANGED <<db, op, req, loc, pre>>

\* ensure_wallet, line 32: w = find_one({"user_id": user_id}); if not w ...
ensure_wallet_32(p) ==
    /\ pc[p] = "ensure_wallet_32"
    /\ IF find_one(db.wallet, [user_id |-> loc[p].cw.user_id]) # 0
       THEN ensure_wallet_return(p)
       ELSE Jump(p, "ensure_wallet_34", NoRes)
    /\ UNCHANGED <<db, op, req, loc, pre>>

\* ensure_wallet, line 34: create the wallet with balance 0
ensure_wallet_34(p) ==
    /\ pc[p] = "ensure_wallet_34"
    /\ db' = create_document(db, "wallet", Wallet(loc[p].cw.user_id, 0))
    /\ Jump(p, "ensure_wallet_35", NoRes)
    /\ UNCHANGED <<op, req, loc, pre>>

\* ensure_wallet, line 35, the inner find_one({"_id": wid}); its result is
\* the query value of the outer one
ensure_wallet_35(p) ==
    /\ pc[p] = "ensure_wallet_35"
    /\ Jump(p, "ensure_wallet_35_outer", NoRes)
    /\ UNCHANGED <<db, op, req, loc, pre>>

\* ensure_wallet, line 35, the outer find_one; no caller uses what
\* ensure_wallet returns
ensure_wallet_35_outer(p) ==
    /\ pc[p] = "ensure_wallet_35_outer"
    /\ ensure_wallet_return(p)
    /\ UNCHANGED <<db, op, req, loc, pre>>

\* C2 mutant: the balance is written back from the value the request saw
\* when it arrived (read-modify-write) instead of incremented in the store
credit_wallet_41_stale(p) ==
    /\ pc[p] = "credit_wallet_41"
    /\ LET uid == loc[p].cw.user_id
           k == find_one(db.wallet, [user_id |-> uid])
       IN  db' = [db EXCEPT !.wallet[k].balance = Balance(pre[p], uid) + loc[p].cw.amount]
    /\ Jump(p, "credit_wallet_42", NoRes)
    /\ UNCHANGED <<op, req, loc, pre>>

\* C10 mutant: an overdraft check rejects a debit the balance does not cover
credit_wallet_41_overdraft(p) ==
    /\ pc[p] = "credit_wallet_41"
    /\ IF Balance(db, loc[p].cw.user_id) + loc[p].cw.amount < 0
       THEN /\ db' = db
            /\ Jump(p, "done", [code |-> 400, detail |-> "Insufficient funds"])
       ELSE /\ db' = [db EXCEPT !.wallet = inc_balance(@, loc[p].cw.user_id, loc[p].cw.amount)]
            /\ Jump(p, "credit_wallet_42", NoRes)
    /\ UNCHANGED <<op, req, loc, pre>>

\* credit_wallet, line 41: $inc the balance
credit_wallet_41(p) ==
    /\ pc[p] = "credit_wallet_41"
    /\ db' = [db EXCEPT !.wallet = inc_balance(@, loc[p].cw.user_id, loc[p].cw.amount)]
    /\ Jump(p, "credit_wallet_42", NoRes)
    /\ UNCHANGED <<op, req, loc, pre>>

\* credit_wallet, line 42: append the transaction
credit_wallet_42(p) ==
    /\ pc[p] = "credit_wallet_42"
    /\ LET c == loc[p].cw
       IN  db' = create_document(db, "transaction",
                    Transaction(c.user_id, c.tx_type, c.amount, c.reference_id, c.meta))
    /\ Jump(p, "notify", NoRes)
    /\ UNCHANGED <<op, req, loc, pre>>

\* notify, line 46, and the return to the calling handler
notify(p) ==
    /\ pc[p] = "notify"
    /\ LET n == loc[p].note
       IN  db' = create_document(db, "notification", Notification(n.user_id, n.title, n.message))
    /\ IF op[p] = "run_distribution"
       THEN /\ loc' = [loc EXCEPT ![p].i = @ + 1]
            /\ Jump(p, "run_distribution_243", NoRes)
       ELSE /\ loc' = loc
            /\ Jump(p, "done", Response(p))
    /\ UNCHANGED <<op, req, pre>>

\* the caller sets up credit_wallet(user_id, amount, tx_type, reference_id, meta)
\* followed by notify(user_id, title, message)
Call(l, uid, amount, tx_type, reference_id, meta, title, message) ==
    [l EXCEPT !.cw = [user_id |-> uid, amount |-> amount, tx_type |-> tx_type,
                      reference_id |-> reference_id, meta |-> meta],
              !.note = [user_id |-> uid, title |-> title, message |-> message]]

(* --------------------------- wallet & payments ------------------------- *)

\* C19 mutant: the top-up credits the amount as sent, sign included
wallet_topup_signed(p, user_id, amount) ==
    /\ CreditAllowed
    /\ Accept(p, "wallet_topup", [user_id |-> user_id, amount |-> amount])
    /\ loc' = [loc EXCEPT ![p] =
                 Call(@, user_id, amount, "topup", None, EmptyMeta, "Wallet Top-up", amount)]
    /\ Jump(p, "ensure_wallet_32", NoRes)
    /\ UNCHANGED db

\* POST /wallet/topup
wallet_topup(p, user_id, amount) ==
    /\ CreditAllowed
    /\ Accept(p, "wallet_topup", [user_id |-> user_id, amount |-> amount])
    /\ loc' = [loc EXCEPT ![p] =
                 Call(@, user_id, abs(amount), "topup", None, EmptyMeta, "Wallet Top-up", amount)]
    /\ Jump(p, "ensure_wallet_32", NoRes)
    /\ UNCHANGED db

\* POST /instalments/pay
pay_instalment(p, user_id, investment_id, amount) ==
    /\ CreditAllowed
    /\ Accept(p, "pay_instalment",
              [user_id |-> user_id, investment_id |-> investment_id, amount |-> amount])
    /\ Jump(p, "pay_instalment_194", NoRes)
    /\ UNCHANGED <<db, loc>>

\* pay_instalment, line 194: record the instalment, then call credit_wallet
pay_instalment_194(p) ==
    /\ pc[p] = "pay_instalment_194"
    /\ LET r == req[p]
       IN  /\ db' = create_document(db, "instalment",
                        Instalment(r.user_id, r.investment_id, r.amount))
           /\ loc' = [loc EXCEPT ![p] =
                        Call(@, r.user_id, -abs(r.amount), "instalment_payment",
                             r.investment_id, EmptyMeta, "Instalment Paid", r.amount)]
    /\ Jump(p, "ensure_wallet_32", NoRes)
    /\ UNCHANGED <<op, req, pre>>

\* GET /wallet/{user_id}
get_wallet(p, user_id) ==
    /\ Accept(p, "get_wallet", [user_id |-> user_id])
    /\ Jump(p, "get_wallet_209", NoRes)
    /\ UNCHANGED <<db, loc>>

\* C11 mutant: the read goes through ensure_wallet and so creates the wallet
\* it does not find
get_wallet_209_ensure(p) ==
    /\ pc[p] = "get_wallet_209"
    /\ LET u == req[p].user_id
           k == find_one(db.wallet, [user_id |-> u])
       IN  IF k = 0
           THEN /\ db' = create_document(db, "wallet", Wallet(u, 0))
                /\ Jump(p, "done", [code |-> 200, user_id |-> u, balance |-> 0])
           ELSE /\ db' = db
                /\ Jump(p, "done", [code |-> 200, id |-> db.wallet[k]._id, user_id |-> u,
                                    balance |-> db.wallet[k].balance,
                                    currency |-> db.wallet[k].currency])
    /\ UNCHANGED <<op, req, loc, pre>>

\* get_wallet, lines 209-212: find_one(...) or {"user_id": user_id,
\* "balance": 0.0}; a stored document is returned with _id renamed to id
get_wallet_209(p) ==
    /\ pc[p] = "get_wallet_209"
    /\ LET u == req[p].user_id
           k == find_one(db.wallet, [user_id |-> u])
       IN  IF k = 0
           THEN Jump(p, "done", [code |-> 200, user_id |-> u, balance |-> 0])
           ELSE Jump(p, "done", [code |-> 200, id |-> db.wallet[k]._id, user_id |-> u,
                                 balance |-> db.wallet[k].balance,
                                 currency |-> db.wallet[k].currency])
    /\ UNCHANGED <<db, op, req, loc, pre>>

(* ------------------------ distributions & exit ------------------------- *)

\* the float product user_shares * (total_amount / shares_total), for a
\* total_amount of c > 0 cents: three roundings to double, of c / 100, of the
\* quotient and of the product
float_div(x, d) == FloatOf(x.m, d, x.e)
float_mul(x, k) == FloatOf(MulSmall(x.m, k), 1, x.e)
float_product(user_shares, c, shares_total) ==
    float_mul(float_div(FloatOf(BigNat(c), 100, 0), shares_total), user_shares)

\* round(x, 2) where the exact product is q cents and a half: round() goes
\* by the double itself, which lies above (side 1) or below (side -1) the
\* half, or on it (then to the even cent)
round_half_cent(side, q) ==
    IF side > 0 THEN q + 1
    ELSE IF side < 0 THEN q
    ELSE IF q % 2 = 0 THEN q ELSE q + 1

\* amount = round(user_shares * per_share, 2) with per_share =
\* total_amount / shares_total, in cents.  Off a half cent the float product
\* is nearer to the cent nearest to the exact product than to any other.
distribution_amount(user_shares, total_amount, shares_total) ==
    LET c == abs(total_amount)
        n == user_shares * c
        q == n \div shares_total
        r == n % shares_total
        cents == IF 2 * r > shares_total THEN q + 1
                 ELSE IF 2 * r < shares_total THEN q
                 ELSE round_half_cent(
                          CompareToHalfCents(float_product(user_shares, c, shares_total),
                                             2 * q + 1), q)
    IN  IF total_amount < 0 THEN 0 - cents ELSE cents

\* C8 mutant: the payout without the factor 0.9
exit_payout_full(shares) == shares * 100 * 100

\* payout = round(shares * 0.9 * 100, 2), in cents: the exact product is
\* 90.00 * shares, the float product differs from it by less than a
\* millionth of a cent, and round() returns the whole cents
exit_payout(shares) == (shares * 9 * 100 * 100) \div 10

\* the query {"offering_id": offering_id, "status": "active"}
ActiveIn(offering_id) == [offering_id |-> offering_id, status |-> "active"]

\* POST /distributions/run
run_distribution(p, offering_id, month, total_amount) ==
    /\ RunAllowed
    /\ Accept(p, "run_distribution",
              [offering_id |-> offering_id, month |-> month, total_amount |-> total_amount])
    /\ Jump(p, "run_distribution_233", NoRes)
    /\ UNCHANGED <<db, loc>>

\* C7 mutant: an offering without shares is not rejected; its per_share is 0
run_distribution_234_lenient(p, k) ==
    LET shares_total == db.offering[k].shares_total
    IN  IF k = 0
        THEN /\ Jump(p, "done", [code |-> 404, detail |-> "Offering not found"])
             /\ loc' = loc
        ELSE /\ Jump(p, "run_distribution_241", NoRes)
             /\ loc' = [loc EXCEPT ![p].shares_total = IF shares_total <= 0 THEN 1 ELSE shares_total,
                                   ![p].per_share =
                                       IF shares_total <= 0 THEN Frac(0, 1)
                                       ELSE Frac(req[p].total_amount, shares_total)]

\* C9 mutant: a run for an (offering_id, month) that already has a
\* Distribution record is rejected as a duplicate
run_distribution_234_guarded(p, k) ==
    LET shares_total == db.offering[k].shares_total
        SameRun == [offering_id |-> req[p].offering_id, month |-> req[p].month]
    IN  IF k = 0
        THEN /\ Jump(p, "done", [code |-> 404, detail |-> "Offering not found"])
             /\ loc' = loc
        ELSE IF shares_total <= 0
        THEN /\ Jump(p, "done", [code |-> 400, detail |-> "Offering has no shares_total"])
             /\ loc' = loc
        ELSE IF find_one(db.distribution, SameRun) # 0
        THEN /\ Jump(p, "done", [code |-> 409, detail |-> "Already distributed"])
             /\ loc' = loc
        ELSE /\ Jump(p, "run_distribution_241", NoRes)
             /\ loc' = [loc EXCEPT ![p].shares_total = shares_total,
                                   ![p].per_share = Frac(req[p].total_amount, shares_total)]

\* run_distribution, lines 234-239, with off the k-th offering, k = 0 for
\* none: the checks of off and shares_total, then per_share
run_distribution_234(p, k) ==
    LET shares_total == db.offering[k].shares_total
    IN  IF k = 0
        THEN /\ Jump(p, "done", [code |-> 404, detail |-> "Offering not found"])
             /\ loc' = loc
        ELSE IF shares_total <= 0
        THEN /\ Jump(p, "done", [code |-> 400, detail |-> "Offering has no shares_total"])
             /\ loc' = loc
        ELSE /\ Jump(p, "run_distribution_241", NoRes)
             /\ loc' = [loc EXCEPT ![p].shares_total = shares_total,
                                   ![p].per_share = Frac(req[p].total_amount, shares_total)]

\* run_distribution, line 233, find_one({"_id": offering_id}); on a miss the
\* lookup goes on with the second find_one
run_distribution_233(p) ==
    /\ pc[p] = "run_distribution_233"
    /\ LET k == find_one(db.offering, [_id |-> req[p].offering_id])
       IN  IF k = 0
           THEN /\ Jump(p, "run_distribution_233_id", NoRes)
                /\ loc' = loc
           ELSE run_distribution_234(p, k)
    /\ UNCHANGED <<db, op, req, pre>>

\* run_distribution, line 233, find_one({"id": offering_id})
run_distribution_233_id(p) ==
    /\ pc[p] = "run_distribution_233_id"
    /\ run_distribution_234(p, find_one(db.offering, [id |-> req[p].offering_id]))
    /\ UNCHANGED <<db, op, req, pre>>

\* C5 mutant: the query selects by offering_id alone, whatever the status
run_distribution_241_any_status(p) ==
    /\ pc[p] = "run_distribution_241"
    /\ loc' = [loc EXCEPT ![p].invs = find(db.investment, [offering_id |-> req[p].offering_id]),
                          ![p].i = 1]
    /\ Jump(p, "run_distribution_243", NoRes)
    /\ UNCHANGED <<db, op, req, pre>>

\* C13 mutant: the Distribution record is written before the loop
run_distribution_241_record_first(p) ==
    /\ pc[p] = "run_distribution_241"
    /\ loc' = [loc EXCEPT ![p].invs = find(db.investment, ActiveIn(req[p].offering_id)),
                          ![p].i = 1]
    /\ LET r == req[p]
       IN  db' = create_document(db, "distribution",
                    Distribution(r.offering_id, r.month, r.total_amount, loc[p].per_share))
    /\ Jump(p, "run_distribution_243", NoRes)
    /\ UNCHANGED <<op, req, pre>>

\* run_distribution, line 241: read the active investments of the offering
run_distribution_241(p) ==
    /\ pc[p] = "run_distribution_241"
    /\ loc' = [loc EXCEPT ![p].invs = find(db.investment, ActiveIn(req[p].offering_id)),
                          ![p].i = 1]
    /\ Jump(p, "run_distribution_243", NoRes)
    /\ UNCHANGED <<db, op, req, pre>>

\* C17 mutant: the loop reads the investment again before the credit and
\* skips it unless it is still active
run_distribution_243_recheck(p) ==
    /\ pc[p] = "run_distribution_243"
    /\ LET l == loc[p]
           r == req[p]
           inv == l.invs[l.i]
           amount == distribution_amount(inv.shares, r.total_amount, l.shares_total)
       IN  IF l.i > Len(l.invs)
           THEN /\ Jump(p, "run_distribution_252", NoRes)
                /\ loc' = loc
           ELSE IF amount = 0 \/ db.investment[find_one(db.investment, [_id |-> inv._id])].status # "active"
           THEN /\ Jump(p, "run_distribution_243", NoRes)
                /\ loc' = [loc EXCEPT ![p].i = @ + 1]
           ELSE /\ Jump(p, "ensure_wallet_32", NoRes)
                /\ loc' = [loc EXCEPT ![p] =
                             Call(@, inv.user_id, amount, "rental_distribution", inv._id,
                                  [offering_id |-> r.offering_id, month |-> r.month,
                                   per_share |-> l.per_share],
                                  "Monthly Distribution", amount)]
    /\ UNCHANGED <<db, op, req, pre>>

\* run_distribution, lines 243-249: the head of the loop over invs
run_distribution_243(p) ==
    /\ pc[p] = "run_distribution_243"
    /\ LET l == loc[p]
           r == req[p]
           inv == l.invs[l.i]
           amount == distribution_amount(inv.shares, r.total_amount, l.shares_total)
       IN  IF l.i > Len(l.invs)
           THEN /\ Jump(p, "run_distribution_252", NoRes)
                /\ loc' = loc
           ELSE IF amount = 0
           THEN /\ Jump(p, "run_distribution_243", NoRes)
                /\ loc' = [loc EXCEPT ![p].i = @ + 1]
           ELSE /\ Jump(p, "ensure_wallet_32", NoRes)
                /\ loc' = [loc EXCEPT ![p] =
                             Call(@, inv.user_id, amount, "rental_distribution", inv._id,
                                  [offering_id |-> r.offering_id, month |-> r.month,
                                   per_share |-> l.per_share],
                                  "Monthly Distribution", amount)]
    /\ UNCHANGED <<db, op, req, pre>>

\* C6 mutant: a run that credited nobody returns without a record
run_distribution_252_if_credited(p) ==
    /\ pc[p] = "run_distribution_252"
    /\ LET r == req[p]
       IN  db' = IF Len(db.transaction) = Len(pre[p].transaction) THEN db
                 ELSE create_document(db, "distribution",
                        Distribution(r.offering_id, r.month, r.total_amount, loc[p].per_share))
    /\ Jump(p, "done", [code |-> 200, status |-> "ok", per_share |-> loc[p].per_share])
    /\ UNCHANGED <<op, req, loc, pre>>

\* run_distribution, lines 252-253: persist the Distribution record
run_distribution_252(p) ==
    /\ pc[p] = "run_distribution_252"
    /\ LET r == req[p]
       IN  db' = create_document(db, "distribution",
                    Distribution(r.offering_id, r.month, r.total_amount, loc[p].per_share))
    /\ Jump(p, "done", [code |-> 200, status |-> "ok", per_share |-> loc[p].per_share])
    /\ UNCHANGED <<op, req, loc, pre>>

\* POST /investments/exit
exit_investment(p, investment_id) ==
    /\ CreditAllowed
    /\ Accept(p, "exit_investment", [investment_id |-> investment_id])
    /\ Jump(p, "exit_investment_262", NoRes)
    /\ UNCHANGED <<db, loc>>

\* C16 mutant: an investment that is not active is refused
exit_investment_263_active_only(p, k) ==
    IF k = 0
    THEN /\ Jump(p, "done", [code |-> 404, detail |-> "Investment not found"])
         /\ loc' = loc
    ELSE IF db.investment[k].status # "active"
    THEN /\ Jump(p, "done", [code |-> 400, detail |-> "Investment is not active"])
         /\ loc' = loc
    ELSE /\ Jump(p, "exit_investment_265", NoRes)
         /\ loc' = [loc EXCEPT ![p].inv = db.investment[k]]

\* exit_investment, lines 263-264, with inv the k-th investment, k = 0 for
\* none
exit_investment_263(p, k) ==
    IF k = 0
    THEN /\ Jump(p, "done", [code |-> 404, detail |-> "Investment not found"])
         /\ loc' = loc
    ELSE /\ Jump(p, "exit_investment_265", NoRes)
         /\ loc' = [loc EXCEPT ![p].inv = db.investment[k]]

\* exit_investment, line 262, find_one({"_id": investment_id}); on a miss
\* the lookup goes on with the second find_one
exit_investment_262(p) ==
    /\ pc[p] = "exit_investment_262"
    /\ LET k == find_one(db.investment, [_id |-> req[p].investment_id])
       IN  IF k = 0
           THEN /\ Jump(p, "exit_investment_262_id", NoRes)
                /\ loc' = loc
           ELSE exit_investment_263(p, k)
    /\ UNCHANGED <<db, op, req, pre>>

\* exit_investment, line 262, find_one({"id": investment_id})
exit_investment_262_id(p) ==
    /\ pc[p] = "exit_investment_262_id"
    /\ exit_investment_263(p, find_one(db.investment, [id |-> req[p].investment_id]))
    /\ UNCHANGED <<db, op, req, pre>>

\* update_one({"_id": id}, {"$set": {"status": status}})
set_status(docs, id, status) ==
    LET k == find_one(docs, [_id |-> id])
    IN  IF k = 0 THEN docs ELSE [docs EXCEPT ![k].status = status]

\* exit_investment, lines 265-266: mark the investment exited, compute the
\* payout from the document read at line 262, then call credit_wallet
exit_investment_265(p) ==
    /\ pc[p] = "exit_investment_265"
    /\ LET inv == loc[p].inv
           payout == exit_payout(inv.shares)
       IN  /\ db' = [db EXCEPT !.investment = set_status(@, inv._id, "exited")]
           /\ loc' = [loc EXCEPT ![p] =
                        Call(@, inv.user_id, payout, "exit_payout", inv._id, EmptyMeta,
                             "Exit Processed", payout)]
    /\ Jump(p, "ensure_wallet_32", NoRes)
    /\ UNCHANGED <<op, req, pre>>

(* ------------------- users, offerings, investments --------------------- *)

\* POST /users
create_user(p, email, role) ==
    /\ Len(db.user) < MaxUsers
    /\ Accept(p, "create_user", [email |-> email, role |-> role])
    /\ IF ~UserValid(role)
       THEN Jump(p, "done", [code |-> 422, detail |-> "validation error"])
       ELSE Jump(p, "create_user_110", NoRes)
    /\ UNCHANGED <<db, loc>>

\* create_user, lines 110-112: upsert by email
create_user_110(p) ==
    /\ pc[p] = "create_user_110"
    /\ LET k == find_one(db.user, [email |-> req[p].email])
       IN  IF k # 0
           THEN Jump(p, "done", [code |-> 200, id |-> db.user[k]._id, message |-> "exists"])
           ELSE Jump(p, "create_user_113", NoRes)
    /\ UNCHANGED <<db, op, req, loc, pre>>

\* create_user, lines 113-114: insert the user, then ensure_wallet(_id)
create_user_113(p) ==
    /\ pc[p] = "create_user_113"
    /\ db' = create_document(db, "user", User(req[p].email, req[p].role))
    /\ loc' = [loc EXCEPT ![p].new_id = inserted_id(db, "user"),
                          ![p].cw.user_id = inserted_id(db, "user")]
    /\ Jump(p, "ensure_wallet_32", NoRes)
    /\ UNCHANGED <<op, req, pre>>

\* POST /kyc/submit: request validation
submit_kyc(p, user_id, status) ==
    /\ Len(db.kyc) < MaxKycs
    /\ Accept(p, "submit_kyc", [user_id |-> user_id, status |-> status])
    /\ IF ~KYCValid(status)
       THEN Jump(p, "done", [code |-> 422, detail |-> "validation error"])
       ELSE Jump(p, "submit_kyc_129", NoRes)
    /\ UNCHANGED <<db, loc>>

\* submit_kyc, lines 129-130: insert, then notify
submit_kyc_129(p) ==
    /\ pc[p] = "submit_kyc_129"
    /\ LET r == req[p]
       IN  /\ db' = create_document(db, "kyc", KYC(r.user_id, r.status))
           /\ loc' = [loc EXCEPT ![p].new_id = inserted_id(db, "kyc"),
                                 ![p].note = [user_id |-> r.user_id,
                                              title |-> "KYC Submitted",
                                              message |-> "Your KYC is under review"]]
    /\ Jump(p, "notify", NoRes)
    /\ UNCHANGED <<op, req, pre>>

\* POST /kyc/{kyc_id}/set: validation of the status parameter
set_kyc_status(p, kyc_id, status) ==
    /\ Accept(p, "set_kyc_status", [kyc_id |-> kyc_id, status |-> status])
    /\ IF ~KycDecisionValid(status)
       THEN Jump(p, "done", [code |-> 422, detail |-> "validation error"])
       ELSE Jump(p, "set_kyc_status_136", NoRes)
    /\ UNCHANGED <<db, loc>>

\* set_kyc_status, line 136, the inner find_one({"_id": kyc_id}): the index
\* of the document found, 0 for none
set_kyc_status_136(p) ==
    /\ pc[p] = "set_kyc_status_136"
    /\ loc' = [loc EXCEPT ![p].kyc = find_one(db.kyc, [_id |-> req[p].kyc_id])]
    /\ Jump(p, "set_kyc_status_136_update", NoRes)
    /\ UNCHANGED <<db, op, req, pre>>

\* set_kyc_status, line 136, update_one({"_id": <found> or kyc_id}, $set
\* status): after a hit the filter is the document itself, which is the _id
\* of no document; after a miss it is kyc_id, looked up again now.  A
\* matched document counts as modified, its updated_at being set anew.
set_kyc_status_136_update(p) ==
    /\ pc[p] = "set_kyc_status_136_update"
    /\ LET r == req[p]
           k == IF loc[p].kyc # 0 THEN 0 ELSE find_one(db.kyc, [_id |-> r.kyc_id])
       IN  /\ db' = IF k = 0 THEN db
                    ELSE [db EXCEPT !.kyc = set_status(@, r.kyc_id, r.status)]
           /\ Jump(p, "done", [code |-> 200, updated |-> IF k = 0 THEN 0 ELSE 1])
    /\ UNCHANGED <<op, req, loc, pre>>

\* POST /offerings: request validation, then the check of line 153
create_offering(p, cars_count, shares_total, status) ==
    /\ Len(db.offering) < Len(EmptyDb.offering) + MaxOfferings
    /\ Accept(p, "create_offering",
              [cars_count |-> cars_count, shares_total |-> shares_total, status |-> status])
    /\ IF ~OfferingValid(cars_count, shares_total, status)
       THEN Jump(p, "done", [code |-> 422, detail |-> "validation error"])
       ELSE IF shares_total < cars_count * 10
       THEN Jump(p, "done", [code |-> 400, detail |-> "shares_total must be at least cars_count * 10"])
       ELSE Jump(p, "create_offering_155", NoRes)
    /\ UNCHANGED <<db, loc>>

\* create_offering, lines 155-156
create_offering_155(p) ==
    /\ pc[p] = "create_offering_155"
    /\ db' = create_document(db, "offering", Offering(req[p].cars_count, req[p].shares_total, req[p].status))
    /\ Jump(p, "done", [code |-> 200, id |-> inserted_id(db, "offering")])
    /\ UNCHANGED <<op, req, loc, pre>>

\* C18 mutant: an investment that would take the active investments of its
\* offering beyond shares_total is refused
create_investment_pool_checked(p, user_id, offering_id, shares, status) ==
    /\ Len(db.investment) < MaxInvestments
    /\ Accept(p, "create_investment",
              [user_id |-> user_id, offering_id |-> offering_id, shares |-> shares,
               status |-> status])
    /\ LET k == find_one(db.offering, [_id |-> offering_id])
           active == find(db.investment, ActiveIn(offering_id))
           Pledged[n \in 0..Len(active)] ==
               IF n = 0 THEN 0 ELSE Pledged[n - 1] + active[n].shares
       IN  IF ~InvestmentValid(shares, status)
           THEN Jump(p, "done", [code |-> 422, detail |-> "validation error"])
           ELSE IF k # 0 /\ Pledged[Len(active)] + shares > db.offering[k].shares_total
           THEN Jump(p, "done", [code |-> 400, detail |-> "Not enough shares left"])
           ELSE Jump(p, "create_investment_173", NoRes)
    /\ UNCHANGED <<db, loc>>

\* POST /investments: request validation
create_investment(p, user_id, offering_id, shares, status) ==
    /\ Len(db.investment) < MaxInvestments
    /\ Accept(p, "create_investment",
              [user_id |-> user_id, offering_id |-> offering_id, shares |-> shares,
               status |-> status])
    /\ IF ~InvestmentValid(shares, status)
       THEN Jump(p, "done", [code |-> 422, detail |-> "validation error"])
       ELSE Jump(p, "create_investment_173", NoRes)
    /\ UNCHANGED <<db, loc>>

\* create_investment, lines 173-174: insert, then notify
create_investment_173(p) ==
    /\ pc[p] = "create_investment_173"
    /\ LET r == req[p]
       IN  /\ db' = create_document(db, "investment",
                        Investment(r.user_id, r.offering_id, r.shares, r.status))
           /\ loc' = [loc EXCEPT ![p].new_id = inserted_id(db, "investment"),
                                 ![p].note = [user_id |-> r.user_id,
                                              title |-> "Investment Created",
                                              message |-> r.shares]]
    /\ Jump(p, "notify", NoRes)
    /\ UNCHANGED <<op, req, pre>>

(* -------------------------- secondary market --------------------------- *)

\* POST /secondary/orders: request validation
place_order(p, user_id, offering_id, side, shares, price_per_share, status) ==
    /\ Len(db.secondaryorder) < MaxOrders
    /\ Accept(p, "place_order",
              [user_id |-> user_id, offering_id |-> offering_id, side |-> side,
               shares |-> shares, price_per_share |-> price_per_share, status |-> status])
    /\ IF ~SecondaryOrderValid(side, status)
       THEN Jump(p, "done", [code |-> 422, detail |-> "validation error"])
       ELSE Jump(p, "place_order_276", NoRes)
    /\ UNCHANGED <<db, loc>>

\* place_order, lines 276-277: insert, then notify
place_order_276(p) ==
    /\ pc[p] = "place_order_276"
    /\ LET r == req[p]
       IN  /\ db' = create_document(db, "secondaryorder",
                        SecondaryOrder(r.user_id, r.offering_id, r.side, r.shares,
                                       r.price_per_share, r.status))
           /\ loc' = [loc EXCEPT ![p].new_id = inserted_id(db, "secondaryorder"),
                                 ![p].note = [user_id |-> r.user_id,
                                              title |-> "Order Placed",
                                              message |-> <<side_title(r.side), r.shares, "shares at $",
                                                            r.price_per_share>>]]
    /\ Jump(p, "notify", NoRes)
    /\ UNCHANGED <<op, req, pre>>

(* --------------------------- specifications ---------------------------- *)

\* the response is sent; the process is free for the next request
Return(p) ==
    /\ pc[p] = "done"
    /\ op' = [op EXCEPT ![p] = "idle"]
    /\ pc' = [pc EXCEPT ![p] = "idle"]
    /\ req' = [req EXCEPT ![p] = NoReq]
    /\ loc' = [loc EXCEPT ![p] = NoLoc]
    /\ res' = [res EXCEPT ![p] = NoRes]
    /\ pre' = [pre EXCEPT ![p] = <<>>]
    /\ UNCHANGED <<db, crashes>>

\* the handler dies between two database calls (process crash, lost
\* connection); the writes it has made stay
Crash(p) ==
    /\ pc[p] \notin {"idle", "done"}
    /\ crashes < MaxCrashes
    /\ crashes' = crashes + 1
    /\ pc' = [pc EXCEPT ![p] = "done"]
    /\ res' = [res EXCEPT ![p] = [code |-> 500, detail |-> "crashed"]]
    /\ UNCHANGED <<db, op, req, loc, pre>>

\* the steps of ensure_wallet, credit_wallet and notify, and the response
LedgerSteps(p) ==
    \/ ensure_wallet_32(p)
    \/ ensure_wallet_34(p)
    \/ ensure_wallet_35(p)
    \/ ensure_wallet_35_outer(p)
    \/ credit_wallet_41(p)
    \/ credit_wallet_42(p)
    \/ notify(p)
    \/ Return(p)

WalletOps(p) ==
    \/ \E u \in KnownUserIds, a \in Amounts : wallet_topup(p, u, a)
    \/ \E u \in UserIds, i \in InstalmentRefs, a \in Amounts : pay_instalment(p, u, i, a)
    \/ pay_instalment_194(p)

DistributionOps(p) ==
    \/ \E o \in OfferingIds, m \in Months, t \in TotalAmounts : run_distribution(p, o, m, t)
    \/ run_distribution_233(p)
    \/ run_distribution_233_id(p)
    \/ run_distribution_241(p)
    \/ run_distribution_243(p)
    \/ run_distribution_252(p)
    \/ \E i \in InvestmentIds : exit_investment(p, i)
    \/ exit_investment_262(p)
    \/ exit_investment_262_id(p)
    \/ exit_investment_265(p)

InvestmentOps(p) ==
    \/ \E u \in UserIds, o \in StoredOfferingIds, s \in ShareCounts :
          create_investment(p, u, o, s, DefaultStatus)
    \/ create_investment_173(p)

UserOps(p) ==
    \/ \E e \in Emails : create_user(p, e, DefaultRole)
    \/ create_user_110(p)
    \/ create_user_113(p)

OfferingOps(p) ==
    \/ \E c \in CarsCounts, s \in SharesTotals : create_offering(p, c, s, DefaultOfferingStatus)
    \/ create_offering_155(p)

\* concurrent requests against the ledger
Next == \E p \in Procs : WalletOps(p) \/ UserOps(p) \/ LedgerSteps(p)
Spec == Init /\ [][Next]_vars

\* the ledger and the distribution engine, one request at a time
SeqNext ==
    \/ WalletOps(SeqProc)
    \/ InvestmentOps(SeqProc)
    \/ DistributionOps(SeqProc)
    \/ LedgerSteps(SeqProc)
SeqSpec == Init /\ [][SeqNext]_vars

\* the ledger, one request at a time, where a handler may die at any
\* database call
CrashNext ==
    \/ WalletOps(SeqProc)
    \/ LedgerSteps(SeqProc)
    \/ Crash(SeqProc)
CrashSpec == Init /\ [][CrashNext]_vars

RunOps(p) ==
    \/ \E o \in OfferingIds, m \in Months, t \in TotalAmounts : run_distribution(p, o, m, t)
    \/ run_distribution_233(p)
    \/ run_distribution_233_id(p)
    \/ run_distribution_241(p)
    \/ run_distribution_243(p)
    \/ run_distribution_252(p)

ExitOps(p) ==
    \/ \E i \in InvestmentIds : exit_investment(p, i)
    \/ exit_investment_262(p)
    \/ exit_investment_262_id(p)
    \/ exit_investment_265(p)

PoolOps(p) ==
    \/ \E u \in UserIds, o \in StoredOfferingIds, s \in PoolShareCounts :
          create_investment(p, u, o, s, DefaultStatus)
    \/ create_investment_173(p)

\* investments without a limit on the pool and distribution runs, one request
\* at a time, where a handler may die at any database call
PoolRunOps(p) ==
    \/ \E o \in OfferingIds, m \in Months, t \in PoolTotalAmounts : run_distribution(p, o, m, t)
    \/ run_distribution_233(p)
    \/ run_distribution_233_id(p)
    \/ run_distribution_241(p)
    \/ run_distribution_243(p)
    \/ run_distribution_252(p)

PoolNext ==
    \/ PoolOps(SeqProc)
    \/ PoolRunOps(SeqProc)
    \/ LedgerSteps(SeqProc)
    \/ Crash(SeqProc)
PoolSpec == Init /\ [][PoolNext]_vars

\* no request is in progress
Quiet == \A p \in Procs : op[p] = "idle"

\* the requests that set the scene, made while no request is in progress
SceneOps(p) ==
    \/ \E c \in CarsCounts, s \in SharesTotals :
          Quiet /\ create_offering(p, c, s, DefaultOfferingStatus)
    \/ create_offering_155(p)
    \/ \E u \in UserIds, o \in OfferingIds, s \in SceneShareCounts :
          Quiet /\ create_investment(p, u, o, s, DefaultStatus)
    \/ create_investment_173(p)

\* distribution runs of two processes at the same time, over the offerings
\* and investments created beforehand
ParallelRunNext ==
    \/ SceneOps(SeqProc)
    \/ \E p \in Procs : RunOps(p) \/ LedgerSteps(p)
ParallelRunSpec == Init /\ [][ParallelRunNext]_vars

RaceSceneOps(p) ==
    \/ \E u \in UserIds, o \in StoredOfferingIds, s \in SceneShareCounts :
          Quiet /\ create_investment(p, u, o, s, DefaultStatus)
    \/ create_investment_173(p)

\* distribution runs of one process and exits served by another at the same
\* time, over investments created beforehand
ExitRaceNext ==
    \/ RaceSceneOps(SeqProc)
    \/ RunOps(SeqProc)
    \/ ExitOps(ExitProc)
    \/ \E p \in Procs : LedgerSteps(p)
ExitRaceSpec == Init /\ [][ExitRaceNext]_vars

ExitSceneOps(p) ==
    \/ \E u \in UserIds, o \in StoredOfferingIds, s \in SceneShareCounts, st \in InvestmentStatuses :
          create_investment(p, u, o, s, st)
    \/ create_investment_173(p)

\* investments created with any status, distribution runs and exits, one
\* request at a time
ExitNext ==
    \/ ExitSceneOps(SeqProc)
    \/ RunOps(SeqProc)
    \/ ExitOps(SeqProc)
    \/ LedgerSteps(SeqProc)
ExitSpec == Init /\ [][ExitNext]_vars

\* the wallet, user and offering routes, one request at a time, with amounts
\* of either sign and zero
RouteOps(p) ==
    \/ \E u \in KnownUserIds, a \in SignedAmounts : wallet_topup(p, u, a)
    \/ \E u \in UserIds, i \in InstalmentRefs, a \in SignedAmounts : pay_instalment(p, u, i, a)
    \/ pay_instalment_194(p)
    \/ \E u \in KnownUserIds : get_wallet(p, u)
    \/ get_wallet_209(p)

\* the review of a KYC submission
KycReviewOps(p) ==
    \/ \E k \in KycIds, s \in KycDecisions : set_kyc_status(p, k, s)
    \/ set_kyc_status_136(p)
    \/ set_kyc_status_136_update(p)

\* the routes beside the ledger that send notifications, and the review of
\* a KYC submission
NoticeOps(p) ==
    \/ \E u \in UserIds, s \in KycStatuses : submit_kyc(p, u, s)
    \/ submit_kyc_129(p)
    \/ KycReviewOps(p)
    \/ \E u \in UserIds, o \in StoredOfferingIds, d \in OrderSides,
          n \in OrderShareCounts, c \in OrderPrices, s \in OrderStatuses :
          place_order(p, u, o, d, n, c, s)
    \/ place_order_276(p)

RouteNext ==
    \/ RouteOps(SeqProc)
    \/ UserOps(SeqProc)
    \/ OfferingOps(SeqProc)
    \/ LedgerSteps(SeqProc)
RouteSpec == Init /\ [][RouteNext]_vars

\* the routes that credit a wallet, for one investor
InvestorOps(p) ==
    \/ \E u \in Investors, a \in InvestorTopups : wallet_topup(p, u, a)
    \/ \E u \in Investors, i \in InstalmentRefs, a \in InvestorInstalments : pay_instalment(p, u, i, a)
    \/ pay_instalment_194(p)
    \/ \E u \in Investors, o \in StoredOfferingIds, s \in SceneShareCounts :
          create_investment(p, u, o, s, DefaultStatus)
    \/ create_investment_173(p)
    \/ \E o \in StoredOfferingIds, m \in Months, t \in InvestorTotalAmounts :
          run_distribution(p, o, m, t)
    \/ run_distribution_233(p)
    \/ run_distribution_241(p)
    \/ run_distribution_243(p)
    \/ run_distribution_252(p)
    \/ \E i \in InvestmentIds : exit_investment(p, i)
    \/ exit_investment_262(p)
    \/ exit_investment_262_id(p)
    \/ exit_investment_265(p)

\* every route that sends a notification, one request at a time: the four
\* that credit a wallet, and the two that only notify
NoticeNext ==
    \/ InvestorOps(SeqProc)
    \/ NoticeOps(SeqProc)
    \/ LedgerSteps(SeqProc)
NoticeSpec == Init /\ [][NoticeNext]_vars

\* KYC submissions of one process and reviews served by another at the same
\* time
KycRaceNext ==
    \/ \E u \in UserIds, s \in KycStatuses : submit_kyc(ExitProc, u, s)
    \/ submit_kyc_129(ExitProc)
    \/ KycReviewOps(SeqProc)
    \/ \E p \in Procs : notify(p) \/ Return(p)
KycRaceSpec == Init /\ [][KycRaceNext]_vars

\* a KYC record is approved only by a review that looked for it before it
\* was stored: one request at a time no review changes a record
KycApproved == \E k \in 1..Len(db.kyc) : db.kyc[k].status = "approved"

(* ------------------------ reading the run ------------------------------ *)

\* the documents process p's request has appended to a collection so far
Appended(p, coll) == SubSeq(db[coll], Len(pre[p][coll]) + 1, Len(db[coll]))

\* fields of a stored document, without the _id the store gave it
Fields(doc) == [f \in DOMAIN doc \ {"_id"} |-> doc[f]]

\* process p has answered a request of handler name
Done(p, name) == pc[p] = "done" /\ op[p] = name

\* notify titles of the handlers that call credit_wallet
CreditTitles == {"Wallet Top-up", "Instalment Paid", "Monthly Distribution", "Exit Processed"}

\* the number of completed credit_wallet calls for u, read off the
\* notifications their callers sent afterwards (submit_kyc and place_order
\* notify under other titles and credit nothing)
CreditCalls(d, u) ==
    Cardinality({k \in 1..Len(d.notification) :
                    d.notification[k].user_id = u /\ d.notification[k].title \in CreditTitles})

(* ------------------------------- claims -------------------------------- *)

\* C1: whenever no request is in progress, every user's stored balance is the
\* sum of the amounts of the transactions logged for the user (debits
\* included), and the user has as many transactions as credit_wallet calls
\* were made for the user.
C1_BalanceIsSumOfTransactions ==
    pc[SeqProc] \in {"idle", "done"} =>
        \A u \in UserIds :
            /\ Balance(db, u) = SumAmounts(TxOf(db, u))
            /\ Len(TxOf(db, u)) = CreditCalls(db, u)

\* C1 witness: a user credited through an instalment payment, an exit payout
\* and a rental distribution, with a debit among them, who was also notified
\* of a KYC submission and of an order
C1_Witness ==
    /\ pc[SeqProc] = "idle"
    /\ \E u \in UserIds :
          /\ {"KYC Submitted", "Order Placed"}
                \subseteq {db.notification[k].title :
                              k \in {j \in 1..Len(db.notification) :
                                          db.notification[j].user_id = u}}
          /\ {"instalment_payment", "exit_payout", "rental_distribution"}
                \subseteq {TxOf(db, u)[k].type : k \in 1..Len(TxOf(db, u))}
          /\ Balance(db, u) = SumAmounts(TxOf(db, u))
          /\ Len(TxOf(db, u)) = 3

\* the amounts of the credit_wallet calls for u that have incremented the
\* balance (line 41) and not yet logged their transaction (line 42)
RECURSIVE Unlogged(_, _)
Unlogged(ps, u) ==
    IF ps = {} THEN 0
    ELSE LET p == CHOOSE q \in ps : TRUE
         IN  (IF pc[p] = "credit_wallet_42" /\ loc[p].cw.user_id = u
              THEN loc[p].cw.amount ELSE 0) + Unlogged(ps \ {p}, u)

\* C2: under every interleaving of concurrent credits, the user's balance is
\* the sum of the amounts of the credits that have passed their increment
\* (those logged and those about to be logged); once all calls have
\* completed, it is the sum of all their amounts.
C2_NoLostUpdate ==
    \A u \in KnownUserIds :
        Balance(db, u) = SumAmounts(TxOf(db, u)) + Unlogged(Procs, u)

\* C2 witness: two credits for one user without a wallet, both accepted
\* before either had written anything, both completed
C2_Witness ==
    /\ \A p \in Procs :
          /\ pc[p] = "done"
          /\ op[p] \in {"wallet_topup", "pay_instalment"}
          /\ res[p].code = 200
          /\ pre[p].wallet = <<>>
          /\ pre[p].transaction = <<>>
    /\ \E u \in UserIds :
          /\ \A p \in Procs : req[p].user_id = u
          /\ Len(TxOf(db, u)) = 2
          /\ Balance(db, u) = SumAmounts(TxOf(db, u))
          /\ Balance(db, u) # 0

\* C3 (as claimed): once a top-up or an instalment payment has ended,
\* normally or by the death of its handler, the balance of its user has
\* changed by exactly the amounts of the transactions it appended: both
\* effects of credit_wallet or neither.
C3_BothEffectsOrNeither ==
    \A p \in Procs :
        (pc[p] = "done" /\ op[p] \in {"wallet_topup", "pay_instalment"}) =>
            LET u == req[p].user_id
            IN  Balance(db, u) - Balance(pre[p], u)
                    = SumAmounts(TxOf(db, u)) - SumAmounts(TxOf(pre[p], u))

\* C4 (as claimed): the wallet collection never holds two wallet documents
\* of one user.
C4_OneWalletPerUser ==
    \A u \in KnownUserIds :
        Cardinality({k \in 1..Len(db.wallet) : db.wallet[k].user_id = u}) <= 1

(* ----------------- claims about the distribution engine ---------------- *)

\* index in store d of the offering a run_distribution request names, 0 if none
OfferingOf(d, r) ==
    CHOOSE k \in 0..Len(d.offering) :
        /\ k # 0 => d.offering[k]._id = r.offering_id
        /\ \A j \in 1..Len(d.offering) : d.offering[j]._id = r.offering_id => k = j

\* shares_total of that offering
SharesTotalOf(d, r) == d.offering[OfferingOf(d, r)].shares_total

\* the request passes the offering and shares_total checks
PassesChecks(d, r) == OfferingOf(d, r) # 0 /\ SharesTotalOf(d, r) > 0

\* what the request owes investment inv: shares * total_amount / shares_total,
\* to the nearest cent
Owed(d, r, inv) == distribution_amount(inv.shares, r.total_amount, SharesTotalOf(d, r))

\* inv is to be credited by the request: of its offering, active, owed a
\* non-zero amount
Credited(d, r, inv) ==
    /\ inv.offering_id = r.offering_id
    /\ inv.status = "active"
    /\ Owed(d, r, inv) # 0

\* the transaction the request is to log for inv
RentalTx(d, r, inv) ==
    Transaction(inv.user_id, "rental_distribution", Owed(d, r, inv), inv._id,
                [offering_id |-> r.offering_id, month |-> r.month,
                 per_share |-> Frac(r.total_amount, SharesTotalOf(d, r))])

\* the positions in log txs of the transactions equal to tx but for the _id
Occurrences(txs, tx) == {k \in 1..Len(txs) : Fields(txs[k]) = tx}

\* C5: a successful run_distribution, run alone, has appended exactly one
\* rental_distribution transaction for every investment of the offering that
\* is active and owed a non-zero amount (with that amount, the investment's
\* user, its id as reference_id and meta {offering_id, month, per_share}),
\* and no other transaction.
C5_OneTransactionPerCreditedInvestment ==
    \A p \in Procs :
        (Done(p, "run_distribution") /\ res[p].code = 200) =>
            LET d == pre[p]
                r == req[p]
                new == Appended(p, "transaction")
                due == {k \in 1..Len(d.investment) : Credited(d, r, d.investment[k])}
            IN  /\ Len(new) = Cardinality(due)
                /\ \A k \in due :
                      Cardinality(Occurrences(new, RentalTx(d, r, d.investment[k]))) = 1

\* C5 witness: a run over two active investments of the offering, one
\* credited and one whose amount rounds to zero
C5_Witness ==
    /\ Done(SeqProc, "run_distribution")
    /\ res[SeqProc].code = 200
    /\ req[SeqProc].total_amount # 0
    /\ Len(Appended(SeqProc, "transaction")) = 1
    /\ Len(pre[SeqProc].investment) = 2
    /\ \A k \in 1..2 :
          /\ pre[SeqProc].investment[k].offering_id = req[SeqProc].offering_id
          /\ pre[SeqProc].investment[k].status = "active"

\* C6: a run_distribution that passes the offering and shares_total checks
\* and has run to completion answers ok and has persisted exactly one
\* Distribution record, carrying offering_id, month, total_amount and
\* per_share = total_amount / shares_total.
C6_OneDistributionRecordPerRun ==
    \A p \in Procs :
        (Done(p, "run_distribution") /\ PassesChecks(pre[p], req[p])) =>
            LET r == req[p]
                per_share == Frac(r.total_amount, SharesTotalOf(pre[p], r))
                new == Appended(p, "distribution")
            IN  /\ res[p].code = 200
                /\ res[p].per_share = per_share
                /\ Len(new) = 1
                /\ Fields(new[1]) = Distribution(r.offering_id, r.month, r.total_amount, per_share)

\* C6 witness: a completed run with total_amount = 0 for an offering without
\* investments; nobody is credited and the record is there
C6_Witness ==
    /\ Done(SeqProc, "run_distribution")
    /\ PassesChecks(pre[SeqProc], req[SeqProc])
    /\ req[SeqProc].total_amount = 0
    /\ pre[SeqProc].investment = <<>>
    /\ Appended(SeqProc, "transaction") = <<>>
    /\ Len(Appended(SeqProc, "distribution")) = 1

\* C7: a run_distribution for an offering that does not exist is answered 404,
\* one for an offering whose shares_total is not positive is answered 400,
\* and a rejected run leaves the whole store as it was.
C7_RejectedRunChangesNothing ==
    \A p \in Procs :
        Done(p, "run_distribution") =>
            /\ OfferingOf(pre[p], req[p]) = 0 => res[p].code = 404
            /\ (OfferingOf(pre[p], req[p]) # 0 /\ SharesTotalOf(pre[p], req[p]) <= 0)
                  => res[p].code = 400
            /\ res[p].code # 200 => db = pre[p]

\* C7 witness: a run rejected for an offering without shares that has an
\* active investment and a non-zero amount to distribute
C7_Witness ==
    /\ Done(SeqProc, "run_distribution")
    /\ res[SeqProc].code = 400
    /\ req[SeqProc].total_amount # 0
    /\ \E k \in 1..Len(db.investment) :
          /\ db.investment[k].offering_id = req[SeqProc].offering_id
          /\ db.investment[k].status = "active"
    /\ db = pre[SeqProc]

\* C8: exit_investment on an existing investment with s shares answers ok
\* with payout = 90.00 * s (450.00 for s = 5), has set that investment's
\* status to exited and nothing else in the investments, has raised its
\* user's balance by the payout and appended one exit_payout transaction
\* with reference_id = the investment id; on an unknown id it answers 404
\* and the store is as it was.
C8_ExitPaysOut ==
    \A p \in Procs :
        Done(p, "exit_investment") =>
            LET d == pre[p]
                ids == {j \in 1..Len(d.investment) : d.investment[j]._id = req[p].investment_id}
                k == IF ids = {} THEN 0 ELSE CHOOSE j \in ids : TRUE
                inv == d.investment[k]
                payout == 9000 * inv.shares
                new == Appended(p, "transaction")
            IN  IF k = 0
                THEN res[p].code = 404 /\ db = d
                ELSE /\ res[p].code = 200
                     /\ res[p].payout = payout
                     /\ inv.shares = 5 => res[p].payout = 45000
                     /\ db.investment = [d.investment EXCEPT ![k].status = "exited"]
                     /\ Balance(db, inv.user_id) = Balance(d, inv.user_id) + payout
                     /\ Len(new) = 1
                     /\ Fields(new[1]) =
                            Transaction(inv.user_id, "exit_payout", payout, inv._id, EmptyMeta)

\* C8 witness: the exit of a 5-share investment of a user who had a balance
C8_Witness ==
    /\ Done(SeqProc, "exit_investment")
    /\ res[SeqProc].code = 200
    /\ res[SeqProc].payout = 45000
    /\ \E u \in UserIds :
          /\ Balance(pre[SeqProc], u) # 0
          /\ Balance(db, u) = Balance(pre[SeqProc], u) + 45000

\* the request repeats a run the store already records: same offering_id,
\* month, total_amount
RepeatsRun(d, r) ==
    \E j \in 1..Len(d.distribution) :
        Fields(d.distribution[j]) =
            Distribution(r.offering_id, r.month, r.total_amount,
                         Frac(r.total_amount, SharesTotalOf(d, r)))

\* the amounts store d has logged for inv under the request's (offering_id,
\* month, per_share)
RentalLogged(d, r, inv) ==
    LET ForInv(t) == Fields(t) = RentalTx(d, r, inv)
    IN  SelectSeq(d.transaction, ForInv)

\* the amount the request owes user u over all investments it credits
RECURSIVE OwedTo(_, _, _, _)
OwedTo(d, r, u, n) ==
    IF n = 0 THEN 0
    ELSE (IF Credited(d, r, d.investment[n]) /\ d.investment[n].user_id = u
          THEN Owed(d, r, d.investment[n]) ELSE 0) + OwedTo(d, r, u, n - 1)

\* C9: a run_distribution that repeats a recorded run (same offering_id,
\* month, total_amount) is not rejected or skipped: it answers ok, adds a
\* second Distribution record for the (offering_id, month), logs one more
\* rental_distribution transaction for every investment it credits and raises
\* every user's balance by what it owes the user again; an investment
\* credited once before has then been credited twice the single-run amount.
C9_RepeatedRunCreditsAgain ==
    \A p \in Procs :
        (Done(p, "run_distribution") /\ PassesChecks(pre[p], req[p])
            /\ RepeatsRun(pre[p], req[p])) =>
            LET d == pre[p]
                r == req[p]
                SameKey(x) == x.offering_id = r.offering_id /\ x.month = r.month
            IN  /\ res[p].code = 200
                /\ Len(db.distribution) = Len(d.distribution) + 1
                /\ Len(SelectSeq(db.distribution, SameKey)) >= 2
                /\ \A u \in UserIds :
                      Balance(db, u) = Balance(d, u) + OwedTo(d, r, u, Len(d.investment))
                /\ \A k \in 1..Len(d.investment) :
                      LET inv == d.investment[k]
                      IN  Credited(d, r, inv) =>
                            /\ Len(RentalLogged(db, r, inv)) = Len(RentalLogged(d, r, inv)) + 1
                            /\ Len(RentalLogged(d, r, inv)) = 1 =>
                                  SumAmounts(RentalLogged(db, r, inv)) = 2 * Owed(d, r, inv)

\* C9 witness: the second of two identical runs has credited an investment a
\* second time and the store holds two Distribution records for the run
C9_Witness ==
    /\ Done(SeqProc, "run_distribution")
    /\ res[SeqProc].code = 200
    /\ RepeatsRun(pre[SeqProc], req[SeqProc])
    /\ Len(db.distribution) = 2
    /\ Fields(db.distribution[1]) = Fields(db.distribution[2])
    /\ \E k \in 1..Len(db.investment) :
          LET inv == db.investment[k]
          IN  /\ Credited(db, req[SeqProc], inv)
              /\ Len(RentalLogged(db, req[SeqProc], inv)) = 2
              /\ Balance(db, inv.user_id) = 2 * Owed(db, req[SeqProc], inv)

\* C10: a pay_instalment is never rejected: it answers ok and has lowered
\* the user's balance by |amount| (from 0 if the user had no wallet), whatever
\* the balance was.
C10_DebitNeverRejected ==
    \A p \in Procs :
        Done(p, "pay_instalment") =>
            /\ res[p].code = 200
            /\ Balance(db, req[p].user_id)
                  = Balance(pre[p], req[p].user_id) - abs(req[p].amount)

\* C10 witness: the first instalment of a user without a wallet leaves the
\* balance at -|amount|
C10_Witness ==
    /\ Done(SeqProc, "pay_instalment")
    /\ pre[SeqProc].wallet = <<>>
    /\ req[SeqProc].amount # 0
    /\ Balance(db, req[SeqProc].user_id) = -abs(req[SeqProc].amount)
    /\ Balance(db, req[SeqProc].user_id) < 0

\* the wallet documents of user u in store d, by position
WalletsOf(d, u) == {k \in 1..Len(d.wallet) : d.wallet[k].user_id = u}

\* C11: GET /wallet/{user_id} leaves the store as it was when the request
\* arrived; for a user without a wallet document it answers balance 0 and
\* the store still holds no wallet for the user afterwards; for a user with
\* a wallet it answers the stored balance, which stays as it was.
C11_ReadChangesNothing ==
    \A p \in Procs :
        Done(p, "get_wallet") =>
            LET u == req[p].user_id
                mine == WalletsOf(pre[p], u)
            IN  /\ db = pre[p]
                /\ res[p].code = 200
                /\ IF mine = {}
                   THEN res[p].balance = 0 /\ WalletsOf(db, u) = {}
                   ELSE \E k \in mine :
                           /\ \A j \in mine : k <= j
                           /\ res[p].balance = pre[p].wallet[k].balance
                           /\ db.wallet[k].balance = pre[p].wallet[k].balance

\* C11 witness: the wallet of a user who has none was read while another
\* user's wallet holds money
C11_Witness ==
    \E p \in Procs :
        /\ Done(p, "get_wallet")
        /\ WalletsOf(db, req[p].user_id) = {}
        /\ res[p].balance = 0
        /\ \E k \in 1..Len(db.wallet) : db.wallet[k].balance # 0

\* C12: an offering accepted by POST /offerings has shares_total equal to
\* cars_count * 10; a request whose shares_total differs from cars_count * 10
\* is rejected with an error and no offering is stored.
C12_SharesTotalIsTenPerCar ==
    \A p \in Procs :
        Done(p, "create_offering") =>
            LET r == req[p]
                new == Appended(p, "offering")
            IN  IF r.shares_total = r.cars_count * 10
                THEN /\ res[p].code = 200
                     /\ Len(new) = 1
                     /\ new[1].shares_total = new[1].cars_count * 10
                ELSE /\ res[p].code \in {400, 422}
                     /\ new = <<>>

\* the transactions a run r started on store d is to log, in the order of
\* the investments in the store
DueTx(d, r) ==
    LET IsDue(inv) == Credited(d, r, inv)
        due == SelectSeq(d.investment, IsDue)
    IN  [k \in 1..Len(due) |-> RentalTx(d, r, due[k])]

\* the sum of the first n amounts of txs that go to user u
AmountFor(txs, u, n) ==
    LET first == SubSeq(txs, 1, IF n < Len(txs) THEN n ELSE Len(txs))
        Mine(t) == t.user_id = u
    IN  SumAmounts(SelectSeq(first, Mine))

\* what holds of a run of process p that has passed the checks, at any
\* point of it and after it has ended
RunInOrder(p) ==
    (op[p] = "run_distribution" /\ PassesChecks(pre[p], req[p])) =>
        LET due == DueTx(pre[p], req[p])
            new == Appended(p, "transaction")
            k == Len(new)
            Gain(u) == Balance(db, u) - Balance(pre[p], u)
        IN  /\ k <= Len(due)
            /\ \A j \in 1..k : Fields(new[j]) = due[j]
            /\ Len(Appended(p, "distribution")) <= 1
            /\ Appended(p, "distribution") # <<>> =>
                  /\ k = Len(due)
                  /\ \A u \in UserIds : Gain(u) = AmountFor(due, u, k)
            /\ (pc[p] = "done" /\ res[p].code = 500) =>
                  /\ Appended(p, "distribution") = <<>>
                  /\ \A u \in UserIds : Gain(u) \in {AmountFor(due, u, k), AmountFor(due, u, k + 1)}

\* no run_distribution is in progress
NoRunInProgress == \A p \in Procs : op[p] # "run_distribution" \/ pc[p] = "done"

\* C13: within one run_distribution the Distribution record is written only
\* after the credit of every selected investment has finished; a run that
\* stops after k of its n credits leaves those k transactions and credits in
\* the store and no Distribution record; and once no run is in progress no
\* step credits a wallet, logs a transaction or writes a Distribution record,
\* so the remaining n - k credits of a stopped run are never made.
C13_RecordAfterCreditsNoResume ==
    /\ [](\A p \in Procs : RunInOrder(p))
    /\ [][NoRunInProgress =>
              /\ db'.wallet = db.wallet
              /\ db'.transaction = db.transaction
              /\ db'.distribution = db.distribution]_vars

\* C13 witness: a run that was to credit two investments died after the
\* first credit; one transaction is logged and no Distribution record
C13_Witness ==
    \E p \in Procs :
        /\ Done(p, "run_distribution")
        /\ res[p].code = 500
        /\ PassesChecks(pre[p], req[p])
        /\ Len(DueTx(pre[p], req[p])) = 2
        /\ Len(Appended(p, "transaction")) = 1
        /\ \E u \in UserIds : Balance(db, u) = Balance(pre[p], u) + DueTx(pre[p], req[p])[1].amount
        /\ Appended(p, "distribution") = <<>>

\* credit_wallet followed by notify, run alone on store d for transaction tx
CreditAlone(d, tx) ==
    LET d1 == IF \E k \in 1..Len(d.wallet) : d.wallet[k].user_id = tx.user_id THEN d
              ELSE create_document(d, "wallet", Wallet(tx.user_id, 0))
        first == CHOOSE k \in 1..Len(d1.wallet) :
                    /\ d1.wallet[k].user_id = tx.user_id
                    /\ \A j \in 1..(k - 1) : d1.wallet[j].user_id # tx.user_id
        d2 == [d1 EXCEPT !.wallet[first].balance = @ + tx.amount]
        d3 == create_document(d2, "transaction", tx)
    IN  create_document(d3, "notification",
                        Notification(tx.user_id, "Monthly Distribution", tx.amount))

RECURSIVE CreditAllAlone(_, _)
CreditAllAlone(d, txs) ==
    IF txs = <<>> THEN d ELSE CreditAllAlone(CreditAlone(d, txs[1]), Tail(txs))

\* the store run_distribution r leaves when it runs alone on store d
RunAlone(d, r) ==
    IF ~PassesChecks(d, r) THEN d
    ELSE create_document(CreditAllAlone(d, DueTx(d, r)), "distribution",
            Distribution(r.offering_id, r.month, r.total_amount,
                         Frac(r.total_amount, SharesTotalOf(d, r))))

\* in the sequential specifications a completed run leaves RunAlone
RunAloneAgrees ==
    \A p \in Procs :
        (Done(p, "run_distribution") /\ res[p].code # 500) => db = RunAlone(pre[p], req[p])

\* two collections hold the same documents, whatever their order and _ids
SameDocs(a, b) ==
    \A x \in {Fields(a[k]) : k \in 1..Len(a)} \cup {Fields(b[k]) : k \in 1..Len(b)} :
        Cardinality(Occurrences(a, x)) = Cardinality(Occurrences(b, x))

\* C14: two run_distribution calls for different offerings that arrive on
\* the same store and both complete leave the wallet documents, the
\* transactions and the Distribution records that running the one and then
\* the other would leave, however their steps interleave.
C14_ParallelRunsAsSequential ==
    \A p, q \in Procs :
        ( /\ p # q
          /\ Done(p, "run_distribution") /\ res[p].code = 200
          /\ Done(q, "run_distribution") /\ res[q].code = 200
          /\ req[p].offering_id # req[q].offering_id
          /\ pre[p] = pre[q] ) =>
            LET seq == RunAlone(RunAlone(pre[p], req[p]), req[q])
            IN  /\ SameDocs(db.wallet, seq.wallet)
                /\ SameDocs(db.transaction, seq.transaction)
                /\ SameDocs(db.distribution, seq.distribution)

\* C15: with requests run one at a time, ensure_wallet for a user without a
\* wallet has created one wallet document with balance 0; for a user who has
\* a wallet it has created nothing and left every balance as it was; so no
\* user ever has more than one wallet, however many calls were made.
C15_EnsureWalletIdempotent ==
    /\ \A u \in KnownUserIds : Cardinality(WalletsOf(db, u)) <= 1
    /\ \A p \in Procs :
          LET u == IF op[p] = "create_user" THEN res[p].id ELSE req[p].user_id
              returned ==
                  \/ op[p] \in {"wallet_topup", "pay_instalment"} /\ pc[p] = "credit_wallet_41"
                  \/ Done(p, "create_user") /\ Appended(p, "user") # <<>>
              old == pre[p].wallet
          IN  returned =>
                  IF WalletsOf(pre[p], u) # {}
                  THEN db.wallet = old
                  ELSE /\ Len(db.wallet) = Len(old) + 1
                       /\ SubSeq(db.wallet, 1, Len(old)) = old
                       /\ Fields(db.wallet[Len(db.wallet)]) = Wallet(u, 0)

\* C15 witness: ensure_wallet has returned for a user whose wallet, made by
\* an earlier call, holds money; the wallets are as they were
C15_Witness ==
    \E p \in Procs :
        /\ op[p] = "wallet_topup"
        /\ pc[p] = "credit_wallet_41"
        /\ Cardinality(WalletsOf(pre[p], req[p].user_id)) = 1
        /\ Balance(pre[p], req[p].user_id) # 0
        /\ db.wallet = pre[p].wallet

\* the exit_payout transactions store d logs for investment id, by position
ExitPayouts(d, id) ==
    {k \in 1..Len(d.transaction) :
        d.transaction[k].type = "exit_payout" /\ d.transaction[k].reference_id = id}

\* C16: exit_investment on an investment that is no longer active (already
\* exited, or defaulted) answers ok again, with the same payout
\* 90.00 * shares, raises the user's balance by it again and logs one more
\* exit_payout transaction; the investment stays exited.  So after k exits
\* of an investment the log holds k exit_payout transactions for it, each
\* of the full payout.
C16_ExitAgainPaysAgain ==
    \A p \in Procs :
        Done(p, "exit_investment") =>
            \A k \in 1..Len(pre[p].investment) :
                LET inv == pre[p].investment[k]
                    payout == 9000 * inv.shares
                    before == ExitPayouts(pre[p], inv._id)
                    after == ExitPayouts(db, inv._id)
                IN  (inv._id = req[p].investment_id /\ inv.status # "active") =>
                        /\ res[p].code = 200
                        /\ res[p].payout = payout
                        /\ db.investment[k].status = "exited"
                        /\ Balance(db, inv.user_id) = Balance(pre[p], inv.user_id) + payout
                        /\ Cardinality(after) = Cardinality(before) + 1
                        /\ \A j \in after : db.transaction[j].amount = payout

\* C16 witness: the second exit of a 5-share investment; two exit_payout
\* transactions of 450.00 are logged and the balance is 900.00
C16_Witness ==
    \E p \in Procs :
        /\ Done(p, "exit_investment")
        /\ res[p].code = 200
        /\ \E k \in 1..Len(pre[p].investment) :
              /\ pre[p].investment[k]._id = req[p].investment_id
              /\ pre[p].investment[k].status = "exited"
              /\ pre[p].investment[k].shares = 5
              /\ Cardinality(ExitPayouts(db, req[p].investment_id)) = 2
              /\ Balance(db, pre[p].investment[k].user_id) = 90000

\* the rental_distribution transactions logged for investment id among txs
RentalsFor(txs, id) ==
    {k \in 1..Len(txs) : txs[k].type = "rental_distribution" /\ txs[k].reference_id = id}

\* C17: run_distribution credits the investments it read as active at line
\* 241, whatever has become of them since: when its loop has ended, every
\* investment of that list owed a non-zero amount has its one
\* rental_distribution transaction from this run, also when an exit has
\* marked it exited in the meantime.
C17_ExitDoesNotStopCredit ==
    LET p == SeqProc
        r == req[p]
        ended == \/ pc[p] = "run_distribution_252"
                 \/ Done(p, "run_distribution") /\ res[p].code = 200
    IN  (op[p] = "run_distribution" /\ ended) =>
            \A j \in 1..Len(loc[p].invs) :
                LET inv == loc[p].invs[j]
                    owed == distribution_amount(inv.shares, r.total_amount, SharesTotalOf(pre[p], r))
                    mine == RentalsFor(Appended(p, "transaction"), inv._id)
                IN  /\ inv.status = "active"
                    /\ inv.offering_id = r.offering_id
                    /\ owed # 0 =>
                          /\ Cardinality(mine) = 1
                          /\ \A k \in mine : Appended(p, "transaction")[k].amount = owed

\* C17 witness: a completed run has credited an investment that is exited
\* in the store, and the rental_distribution transaction comes after the
\* investment's exit_payout in the log
C17_Witness ==
    /\ Done(SeqProc, "run_distribution")
    /\ res[SeqProc].code = 200
    /\ \E j \in 1..Len(db.investment) :
          LET inv == db.investment[j]
          IN  /\ inv.status = "exited"
              /\ \E a \in ExitPayouts(db, inv._id), b \in RentalsFor(db.transaction, inv._id) :
                    /\ a < b
                    /\ b > Len(pre[SeqProc].transaction)

\* the investments of store d that are active in the offering of run r
ActiveOf(d, r) ==
    LET IsActive(inv) == inv.offering_id = r.offering_id /\ inv.status = "active"
    IN  SelectSeq(d.investment, IsActive)

RECURSIVE SumShares(_)
SumShares(invs) == IF invs = <<>> THEN 0 ELSE invs[1].shares + SumShares(Tail(invs))

\* the active investments of the run's offering hold more shares than its
\* shares_total
Oversubscribed(d, r) == SumShares(ActiveOf(d, r)) > SharesTotalOf(d, r)

\* what the run of process p has credited in aggregate
Aggregate(p) ==
    LET Rental(t) == t.type = "rental_distribution"
    IN  SumAmounts(SelectSeq(Appended(p, "transaction"), Rental))

\* C18 as stated: a run_distribution over an oversubscribed offering credits
\* in aggregate more than total_amount.
C18_OversubscribedRunOverpays ==
    \A p \in Procs :
        ( /\ Done(p, "run_distribution") /\ res[p].code = 200
          /\ Oversubscribed(pre[p], req[p]) ) =>
            Aggregate(p) > req[p].total_amount

\* C18, amended: create_investment stores every request with shares >= 1,
\* with the status it gives (active when left out), whatever the offering's
\* shares_total and the shares already held; a run_distribution credits in aggregate the sum of
\* round(shares * total_amount / shares_total, 2) over the active
\* investments, and over an oversubscribed offering this is more than
\* total_amount whenever the excess total_amount * (held - shares_total) /
\* shares_total is more than half a cent per active investment.
C18_PoolUncheckedRunUncapped ==
    \A p \in Procs :
        /\ (Done(p, "create_investment") /\ res[p].code # 500 /\ req[p].shares >= 1) =>
              /\ res[p].code = 200
              /\ Len(Appended(p, "investment")) = 1
              /\ Fields(Appended(p, "investment")[1]) =
                     [user_id |-> req[p].user_id, offering_id |-> req[p].offering_id,
                      shares |-> req[p].shares, status |-> req[p].status]
        /\ (Done(p, "run_distribution") /\ res[p].code = 200) =>
              LET d == pre[p]
                  r == req[p]
                  act == ActiveOf(d, r)
                  st == SharesTotalOf(d, r)
                  Exact[n \in 0..Len(act)] ==
                      IF n = 0 THEN 0 ELSE Exact[n - 1] + Owed(d, r, act[n])
              IN  /\ Aggregate(p) = Exact[Len(act)]
                  /\ 2 * r.total_amount * (SumShares(act) - st) > Len(act) * st =>
                        Aggregate(p) > r.total_amount

\* C18 witness: a run with total_amount 0.04 over an offering of 10 shares
\* whose active investments hold 17 has credited 0.07
C18_Witness ==
    \E p \in Procs :
        /\ Done(p, "run_distribution")
        /\ res[p].code = 200
        /\ SharesTotalOf(pre[p], req[p]) = 10
        /\ SumShares(ActiveOf(pre[p], req[p])) = 17
        /\ req[p].total_amount = 4
        /\ Aggregate(p) = 7

\* C19: whatever the sign of the amount sent, wallet_topup raises the user's
\* balance by the magnitude of the amount and never lowers it, and
\* pay_instalment lowers it by the magnitude and never raises it; the
\* transaction logged carries the magnitude with that sign.
C19_SignNeverDecidesDirection ==
    \A p \in Procs :
        LET a == req[p].amount
            magnitude == IF a < 0 THEN 0 - a ELSE a
            u == req[p].user_id
            new == Appended(p, "transaction")
        IN  /\ Done(p, "wallet_topup") =>
                  /\ Balance(db, u) = Balance(pre[p], u) + magnitude
                  /\ Balance(db, u) >= Balance(pre[p], u)
                  /\ Len(new) = 1 /\ new[1].type = "topup" /\ new[1].amount = magnitude
            /\ Done(p, "pay_instalment") =>
                  /\ Balance(db, u) = Balance(pre[p], u) - magnitude
                  /\ Balance(db, u) <= Balance(pre[p], u)
                  /\ Len(new) = 1 /\ new[1].type = "instalment_payment"
                  /\ new[1].amount = 0 - magnitude

\* C19 witness: a top-up sent with a negative amount has raised the balance
\* of a user whom an instalment sent with a positive amount had debited
C19_Witness ==
    \E p \in Procs :
        /\ Done(p, "wallet_topup")
        /\ req[p].amount = -150
        /\ Balance(pre[p], req[p].user_id) = -200
        /\ Balance(db, req[p].user_id) = -50

====
